---- MODULE Spec2Model ----
(***************************************************************************)
(* ACR-PCR Overload Classifier: the two Streamlit scripts src/app.py       *)
(* (multi-aircraft batch flow) and src/app.py.py (single-row flow).        *)
(*                                                                         *)
(* A Python str is the sequence of its code points (integers), a dict is a  *)
(* sequence of <<key, value>> pairs in insertion order, a DataFrame is a   *)
(* record of its column labels and its rows.                               *)
(***************************************************************************)
EXTENDS Integers, Sequences, FiniteSets, TLC

VARIABLES
    app,                \* which script runs: "batch" (app.py) or "single" (app.py.py)
    pc,                 \* position of the current script run
    pipeline,           \* the deserialized artifact of this run, or NoPipeline
    num_cols, cat_cols, \* the schema read from the artifact
    choices,            \* the Choice Table of this run (a dict)
    row_base,           \* the shared widget values (row in app.py.py)
    aircraft_selected,  \* the selected identifiers (app.py)
    ui,                 \* the elements shown in this run, in order
    sent,               \* the tables handed to predict / predict_proba in this run
    hres,               \* the last Predict handler's result
    failedBefore,       \* an earlier submission of the session showed 'Prediction failed'
    phase, input, result \* the pure-function specifications: inputs and outputs

vars == <<app, pc, pipeline, num_cols, cat_cols, choices, row_base,
          aircraft_selected, ui, sent, hres, failedBefore, phase, input, result>>

sessionVars == <<app, pc, pipeline, num_cols, cat_cols, choices, row_base,
                 aircraft_selected, ui, sent, hres, failedBefore>>

-----------------------------------------------------------------------------
(* Bounds *)

MaxLen == 2         \* longest raw string held by a numeric field
MaxKeys == 3        \* most keys of a raw input row
MaxText == 4        \* longest text typed in the aircraft text area
MaxCellLen == 2     \* longest string of a spreadsheet cell
MaxCells == 2       \* most cells of a spreadsheet column

-----------------------------------------------------------------------------
(* Column names *)

\* "Gross Wt. (lbs)"
GrossWt ==
    <<71, 114, 111, 115, 115, 32, 87, 116, 46, 32, 40, 108,
      98, 115, 41>>
\* "Degree of saturation"
DegSat ==
    <<68, 101, 103, 114, 101, 101, 32, 111, 102, 32, 115, 97,
      116, 117, 114, 97, 116, 105, 111, 110>>
\* "CBR"
CBR ==
    <<67, 66, 82>>
\* "Aircraft Name"
AircraftName ==
    <<65, 105, 114, 99, 114, 97, 102, 116, 32, 78, 97, 109,
      101>>
\* "Subgrade soil type"
SoilType ==
    <<83, 117, 98, 103, 114, 97, 100, 101, 32, 115, 111, 105,
      108, 32, 116, 121, 112, 101>>
\* "Subgrade Categories (FAA)"
FAACat ==
    <<83, 117, 98, 103, 114, 97, 100, 101, 32, 67, 97, 116,
      101, 103, 111, 114, 105, 101, 115, 32, 40, 70, 65, 65,
      41>>
\* "Runway"
Runway ==
    <<82, 117, 110, 119, 97, 121>>

-----------------------------------------------------------------------------
(* Python values: str, float (by its repr), None, and pandas' missing value  *)
(* (a float nan).  A str, and the repr of a float, is a sequence of code     *)
(* points: "5.0" is <<53, 46, 48>>.                                           *)

Str(s) == [t |-> "str", v |-> s]
Float(r) == [t |-> "float", v |-> r]
None == [t |-> "None", v |-> <<>>]
NaN == [t |-> "NaN", v |-> <<>>]

StringsUpTo(A, n) == UNION {[1..k -> A] : k \in 0..n}

SeqToSet(s) == {s[i] : i \in 1..Len(s)}

\* the elements of xs not in drop, in order
Filter(xs, drop) == SelectSeq(xs, LAMBDA x : x \notin drop)

\* str.replace(c, "") for a character c
Remove(s, c) == SelectSeq(s, LAMBDA x : x # c)

\* the first position of u holding a character of cs, Len(u) + 1 if none
FirstOf(u, cs) ==
    IF \E i \in 1..Len(u) : u[i] \in cs
    THEN CHOOSE i \in 1..Len(u) : u[i] \in cs /\ \A j \in 1..(i - 1) : u[j] \notin cs
    ELSE Len(u) + 1

\* s from its first element outside ws on
LStripOf(s, ws) ==
    IF \A i \in 1..Len(s) : s[i] \in ws THEN <<>>
    ELSE SubSeq(s, CHOOSE i \in 1..Len(s) :
                       s[i] \notin ws /\ \A j \in 1..(i - 1) : s[j] \in ws, Len(s))

\* s up to its last element outside ws
RStripOf(s, ws) ==
    IF \A i \in 1..Len(s) : s[i] \in ws THEN <<>>
    ELSE SubSeq(s, 1, CHOOSE i \in 1..Len(s) :
                          s[i] \notin ws /\ \A j \in (i + 1)..Len(s) : s[j] \in ws)

\* the characters str.strip() removes, those str.isspace() holds of: \t, \n,
\* VT, \f, \r, FS, GS, RS, US, the space, U+0085, U+00A0, U+1680, U+2000 to
\* U+200A, U+2028, U+2029, U+202F, U+205F and U+3000
Whitespace ==
    (9..13) \cup (28..32) \cup {133, 160, 5760} \cup (8192..8202)
        \cup {8232, 8233, 8239, 8287, 12288}

\* the characters float() skips around the ASCII form of a literal: \t, \n,
\* VT, \f, \r and the space
FloatWhitespace == (9..13) \cup {32}

\* str.lstrip(), str.rstrip()
LStrip(s) == LStripOf(s, Whitespace)
RStrip(s) == RStripOf(s, Whitespace)

\* str.strip()
Strip(s) == RStrip(LStrip(s))

-----------------------------------------------------------------------------
(* Natural numbers of any size, for the arithmetic of IEEE doubles: a        *)
(* little-endian sequence of limbs in 0..999, without a high zero limb.      *)

\* every column keeps its three low digits and hands the rest to the next
CarryPass(c) ==
    [i \in 1..(Len(c) + 1) |-> (IF i <= Len(c) THEN c[i] % 1000 ELSE 0)
                               + (IF i > 1 THEN c[i - 1] \div 1000 ELSE 0)] \o <<>>

\* the limbs of the number whose i-th column holds cols[i] < 2^31: after four
\* passes every column is at most 1000, and a carry enters column i when a
\* column below holds 1000 and those between hold 999
BCarry(cols) ==
    LET Settle(v) ==
            LET cin(i) == \E j \in 1..(i - 1) :
                              v[j] = 1000 /\ \A k \in (j + 1)..(i - 1) : v[k] = 999
            IN  RStripOf([i \in 1..Len(v) |-> (v[i] + (IF cin(i) THEN 1 ELSE 0)) % 1000]
                      \o <<>>, {0})
    IN  Settle(CarryPass(CarryPass(CarryPass(CarryPass(cols)))))

BAdd(a, b) ==
    BCarry([i \in 1..(IF Len(a) >= Len(b) THEN Len(a) ELSE Len(b)) |->
              (IF i <= Len(a) THEN a[i] ELSE 0) + (IF i <= Len(b) THEN b[i] ELSE 0)]
           \o <<>>)

\* a - b, for a >= b: a borrow enters column i when a column below is
\* negative and those between are zero
BSub(a, b) ==
    LET d == [i \in 1..Len(a) |-> a[i] - (IF i <= Len(b) THEN b[i] ELSE 0)] \o <<>>
        bin(i) == \E j \in 1..(i - 1) :
                      d[j] < 0 /\ \A k \in (j + 1)..(i - 1) : d[k] = 0
    IN  RStripOf([i \in 1..Len(a) |->
                 (d[i] - (IF bin(i) THEN 1 ELSE 0) + 1000) % 1000] \o <<>>, {0})

BMulSmall(a, s) == BCarry([i \in 1..Len(a) |-> a[i] * s] \o <<>>)

\* the sum of a[j] * b[i + 1 - j] for j in lo..hi, by quarters
RECURSIVE ColSum(_, _, _, _, _)
ColSum(a, b, i, lo, hi) ==
    IF lo > hi THEN 0
    ELSE IF lo = hi THEN a[lo] * b[i + 1 - lo]
    ELSE LET n == (hi - lo) \div 4 + 1
             to(k) == IF lo + k * n - 1 < hi THEN lo + k * n - 1 ELSE hi
         IN  ColSum(a, b, i, lo, to(1)) + ColSum(a, b, i, lo + n, to(2))
             + ColSum(a, b, i, lo + 2 * n, to(3)) + ColSum(a, b, i, lo + 3 * n, hi)

BMul(a, b) ==
    IF a = <<>> \/ b = <<>> THEN <<>>
    ELSE BCarry([i \in 1..(Len(a) + Len(b) - 1) |->
                   ColSum(a, b, i, IF i > Len(b) THEN i + 1 - Len(b) ELSE 1,
                          IF i > Len(a) THEN Len(a) ELSE i)] \o <<>>)

RECURSIVE BPow(_, _)
BPow(b, n) ==
    IF n = 0 THEN <<1>>
    ELSE LET h == BPow(b, n \div 2)
         IN  IF h = <<>> THEN <<>>
             ELSE BMul(BMul(h, h), IF n % 2 = 1 THEN b ELSE <<1>>)

\* -1, 0, 1 as a < b, a = b, a > b
BCmp(a, b) ==
    IF Len(a) # Len(b) THEN (IF Len(a) < Len(b) THEN -1 ELSE 1)
    ELSE IF \A i \in 1..Len(a) : a[i] = b[i] THEN 0
    ELSE LET i == CHOOSE i \in 1..Len(a) :
                      a[i] # b[i] /\ \A j \in (i + 1)..Len(a) : a[j] = b[j]
         IN  IF a[i] < b[i] THEN -1 ELSE 1

\* the largest d in 0..999 with Y * d <= R, a decimal digit at a time: the
\* digit is the number of t in 1..9 that fit
QuotLimb(R, Y) ==
    LET Digit(base, step) ==
            base + step * Cardinality({t \in 1..9 :
                                          BCmp(BMulSmall(Y, base + step * t), R) <= 0})
    IN  Digit(Digit(Digit(0, 100), 10), 1)

\* long division, from the high limb of X down
RECURSIVE BDivLoop(_, _, _, _, _)
BDivLoop(X, Y, i, Q, R) ==
    IF i = 0 THEN [q |-> RStripOf(Q, {0}), r |-> R]
    ELSE LET R1 == RStripOf(<<X[i]>> \o R, {0})
             d == QuotLimb(R1, Y)
         IN  IF d = 0 THEN BDivLoop(X, Y, i - 1, <<0>> \o Q, R1)
             ELSE BDivLoop(X, Y, i - 1, <<d>> \o Q, BSub(R1, BMulSmall(Y, d)))

\* quotient and remainder of X by Y, Y > 0: the limbs of X above the
\* quotient's are less than Y
BDivMod(X, Y) ==
    IF Len(X) < Len(Y) THEN [q |-> <<>>, r |-> X]
    ELSE BDivLoop(X, Y, Len(X) - Len(Y) + 1, <<>>,
                  SubSeq(X, Len(X) - Len(Y) + 2, Len(X)))

\* the powers 2^k, 2^(128 k), 5^k and 5^(128 k), each from k = 0 at index 1
PowTable ==
    [i \in 1..4 |->
        [k \in 1..(IF i % 2 = 1 THEN 128 ELSE 9) |->
            BPow(IF i <= 2 THEN <<2>> ELSE <<5>>,
                 (IF i % 2 = 1 THEN 1 ELSE 128) * (k - 1))] \o <<>>] \o <<>>

\* b^n for b = 2 or 5 and n < 1152
Pow(b, n) ==
    LET At(T, i) == BMul(T[i][(n % 128) + 1], T[i + 1][(n \div 128) + 1])
    IN  At(PowTable, IF b = 2 THEN 1 ELSE 3)

\* the number of bits of x < 2^64
BitLen(x) ==
    LET Bits(T) == CHOOSE k \in 0..64 :
                       BCmp(T[k + 1], x) > 0 /\ (k = 0 \/ BCmp(T[k], x) <= 0)
    IN  Bits(PowTable[1])

\* the value of an ASCII digit, "0" being 48
DigitVal(c) == c - 48

\* the number a sequence of decimal digits writes
BFromDigits(ds) ==
    LET n == Len(ds)
        dv(i) == IF i >= 1 THEN DigitVal(ds[i]) ELSE 0
    IN  RStripOf([l \in 1..((n + 2) \div 3) |->
                 dv(n - 3 * l + 3) + 10 * dv(n - 3 * l + 2) + 100 * dv(n - 3 * l + 1)]
              \o <<>>, {0})

\* the decimal digits of x, none for zero
BToDigits(x) ==
    LStripOf([i \in 1..(3 * Len(x)) |->
        LET limb == x[Len(x) - ((i - 1) \div 3)]
            pos == (i - 1) % 3
        IN  48 + (IF pos = 0 THEN limb \div 100
                  ELSE IF pos = 1 THEN (limb \div 10) % 10
                  ELSE limb % 10)] \o <<>>, {48})

-----------------------------------------------------------------------------
(* IEEE 754 binary64: a finite positive double is m * 2^q with m < 2^53 and  *)
(* -1074 <= q <= 971, m >= 2^52 unless q = -1074.                            *)

\* d.q = floor(x / 2^shift) with remainder d.r and half = 2^(shift - 1), for
\* a quotient x that dropped a fraction when sticky: to the nearest, a tie to
\* even; the rounding may carry into 2^53
DoubleRound(d, half, sticky, q) ==
    LET c == BCmp(d.r, half)
        odd == d.q # <<>> /\ d.q[1] % 2 = 1
        m1 == IF c > 0 \/ (c = 0 /\ (sticky \/ odd)) THEN BAdd(d.q, <<1>>) ELSE d.q
    IN  IF m1 = PowTable[1][54]
        THEN [m |-> PowTable[1][53], q |-> q + 1, inf |-> q + 1 > 971]
        ELSE [m |-> m1, q |-> q, inf |-> q > 971]

\* d0.q = floor(N * 10^E / 2^q0) has 55 to 61 bits; 53 are kept, fewer in a
\* subnormal: q is at least -1074
DoubleQuot(d0, q0) ==
    LET bits == BitLen(d0.q) - 53
        shift == IF bits >= -1074 - q0 THEN bits ELSE -1074 - q0
    IN  DoubleRound(BDivMod(d0.q, PowTable[1][shift + 1]), PowTable[1][shift],
                    d0.r # <<>>, q0 + shift)

\* the double nearest N * 10^E (ties to even), N > 0 and 10^-400 < N * 10^E
\* < 10^400: m * 2^q, or inf when it overflows
ToDouble(N, E) ==
    LET \* q0 + 54 <= floor(log2(N * 10^E)) <= q0 + 60
        q0 == ((Len(BToDigits(N)) + E - 1) * 3321928) \div 1000000 - 55
        Pow10(n) == [i \in 1..(n \div 3 + 1) |->
                        IF i <= n \div 3 THEN 0
                        ELSE IF n % 3 = 0 THEN 1 ELSE IF n % 3 = 1 THEN 10 ELSE 100]
                    \o <<>>
        Pos(n) == IF n > 0 THEN n ELSE 0
    IN  DoubleQuot(BDivMod(BMul(BMul(N, Pow10(Pos(E))), Pow(2, Pos(-q0))),
                           BMul(Pow10(Pos(-E)), Pow(2, Pos(q0)))), q0)

\* the sign of x - n / d for a double x = m * 2^q with q < 0
DoubleCmp(x, n, d) == BCmp(BMul(x.m, d), BMul(n, Pow(2, -x.q)))

\* the double nearest x * s for a double x = m * 2^q with q < 0
DoubleTimes(x, s) == ToDouble(BMul(BMulSmall(x.m, s), Pow(5, -x.q)), x.q)

\* -1, 0, 1 as a < b, a = b, a > b for digit sequences without leading zeros,
\* or of one length
DCmp(a, b) ==
    IF Len(a) # Len(b) THEN (IF Len(a) < Len(b) THEN -1 ELSE 1)
    ELSE IF \A i \in 1..Len(a) : a[i] = b[i] THEN 0
    ELSE LET i == CHOOSE i \in 1..Len(a) :
                      a[i] # b[i] /\ \A j \in 1..(i - 1) : a[j] = b[j]
         IN  IF DigitVal(a[i]) < DigitVal(b[i]) THEN -1 ELSE 1

\* the digits of the next integer
RECURSIVE DInc(_)
DInc(ds) ==
    IF ds = <<>> THEN <<49>>                                    \* "1"
    ELSE IF ds[Len(ds)] = 57 THEN                               \* "9"
         Append(DInc(SubSeq(ds, 1, Len(ds) - 1)), 48)
    ELSE [ds EXCEPT ![Len(ds)] = @ + 1]

\* n times "0"
Zeros(n) == [i \in 1..n |-> 48] \o <<>>

\* Wd, Ld, Hd: the digits of the double and of the ends of its rounding
\* interval in units of 10^t.  The n-digit decimals next to the double are
\* tried for n = 1, 2, ...; the first n with one inside the interval gives
\* the result, the nearer of the two when both are inside.
ShortestFrom(Wd, Ld, Hd, even, t) ==
    LET lo(n) == SubSeq(Wd, 1, n)
        inLo(n) == LET c == DCmp(lo(n) \o Zeros(Len(Wd) - n), Ld)
                   IN  IF even THEN c >= 0 ELSE c > 0
        inHi(n) == LET c == DCmp(DInc(lo(n)) \o Zeros(Len(Wd) - n), Hd)
                   IN  IF even THEN c <= 0 ELSE c < 0
        Out(c, j) == [digits |-> RStripOf(c, {48}), decpt |-> Len(c) + j + t]
        Pick(n) ==
            LET j == Len(Wd) - n
                h == IF j = 0 THEN -1
                     ELSE DCmp(SubSeq(Wd, n + 1, Len(Wd)), <<53>> \o Zeros(j - 1))  \* "50...0"
            IN  IF inHi(n) /\ (~inLo(n) \/ h > 0 \/ (h = 0 /\ DigitVal(Wd[n]) % 2 = 1))
                THEN Out(DInc(lo(n)), j) ELSE Out(lo(n), j)
    IN  Pick(CHOOSE n \in 1..Len(Wd) :
                 (inLo(n) \/ inHi(n)) /\ \A k \in 1..(n - 1) : ~inLo(k) /\ ~inHi(k))

\* the shortest decimal that reads back as the double m * 2^q: its digits
\* and decpt, the value being 0.digits * 10^decpt
Shortest(m, q) ==
    LET \* below a power of two the next double is half as far
        Interval(F, m4, below) ==
            ShortestFrom(BToDigits(BMul(m4, F)),
                         BToDigits(BMul(BSub(m4, below), F)),
                         BToDigits(BMul(BAdd(m4, <<2>>), F)),
                         m[1] % 2 = 0, IF q >= 2 THEN 0 ELSE q - 2)
    IN  Interval(Pow(IF q >= 2 THEN 2 ELSE 5, IF q >= 2 THEN q - 2 ELSE 2 - q),
                 BMulSmall(m, 4),
                 IF q > -1074 /\ m = PowTable[1][53] THEN <<1>> ELSE <<2>>)

RECURSIVE NatDigits(_)
NatDigits(n) == IF n < 10 THEN <<48 + n>>
                ELSE Append(NatDigits(n \div 10), 48 + (n % 10))

\* repr of the float with these digits: exponent form when decpt is outside
\* -3..16, and ".0" after a whole number otherwise ("-" is 45, "+" 43, "." 46,
\* "0" 48, "e" 101)
FormatRepr(neg, ds, decpt) ==
    LET sign == IF neg THEN <<45>> ELSE <<>>
        e == decpt - 1
        ed == NatDigits(IF e < 0 THEN -e ELSE e)
    IN  sign \o
        (IF ds = <<>> THEN <<48, 46, 48>>
         ELSE IF decpt > 16 \/ decpt < -3
         THEN <<Head(ds)>> \o (IF Len(ds) > 1 THEN <<46>> \o Tail(ds) ELSE <<>>)
              \o <<101, IF e < 0 THEN 45 ELSE 43>>
              \o (IF Len(ed) < 2 THEN <<48>> ELSE <<>>) \o ed
         ELSE IF decpt <= 0 THEN <<48, 46>> \o Zeros(-decpt) \o ds
         ELSE IF decpt >= Len(ds) THEN ds \o Zeros(decpt - Len(ds)) \o <<46, 48>>
         ELSE SubSeq(ds, 1, decpt) \o <<46>> \o SubSeq(ds, decpt + 1, Len(ds)))

-----------------------------------------------------------------------------
(* float(str): [sign] (digits [. digits] | . digits) [e [sign] digits], or   *)
(* [sign] inf | infinity | nan in any case, inside optional whitespace; a    *)
(* single underscore may stand between two digits.  "+" is 43, "-" 45,       *)
(* "." 46, "0" to "9" 48 to 57, "E" 69, "_" 95, "e" 101.                     *)

\* an ASCII capital as its small letter
Lower(c) == IF 65 <= c /\ c <= 90 THEN c + 32 ELSE c

\* t without a leading "+" or "-"
Unsigned(t) == IF t # <<>> /\ Head(t) \in {43, 45} THEN Tail(t) ELSE t

\* digits, with single underscores (95) between two of them
DigitPart(u) ==
    /\ u # <<>>
    /\ \A i \in 1..Len(u) :
          \/ u[i] \in 48..57
          \/ /\ u[i] = 95
             /\ 1 < i /\ i < Len(u)
             /\ u[i - 1] \in 48..57 /\ u[i + 1] \in 48..57

\* the zeros of the decimal digits beyond ASCII (Unicode 14.0, 65 scripts);
\* the digits of a script follow its zero
DecimalZeros ==
    {1632, 1776, 1984, 2406, 2534, 2662, 2790, 2918, 3046, 3174,
     3302, 3430, 3558, 3664, 3792, 3872, 4160, 4240, 6112, 6160,
     6470, 6608, 6784, 6800, 6992, 7088, 7232, 7248, 42528, 43216,
     43264, 43472, 43504, 43600, 44016, 65296, 66720, 68912, 69734, 69872,
     69942, 70096, 70384, 70736, 70864, 71248, 71360, 71472, 71904, 72016,
     72784, 73040, 73120, 92768, 92864, 93008, 120782, 120792, 120802, 120812,
     120822, 123200, 123632, 125264, 130032}

\* float() reads a str through its ASCII form: a character below 127 as it
\* is, a whitespace character as a space, a decimal digit as its ASCII digit;
\* at any other character the form ends with "?" (63)
TransformDecimalAndSpaceToASCII(s) ==
    LET decimal(c) == \E z \in DecimalZeros : z <= c /\ c <= z + 9
        ascii(c) == IF c < 127 THEN c
                    ELSE IF c \in Whitespace THEN 32
                    ELSE IF decimal(c)
                    THEN 48 + c - (CHOOSE z \in DecimalZeros : z <= c /\ c <= z + 9)
                    ELSE 63
        t == [i \in 1..Len(s) |-> ascii(s[i])] \o <<>>
        bad == {i \in 1..Len(s) : s[i] >= 127 /\ t[i] = 63}
    IN  IF bad = {} THEN t
        ELSE SubSeq(t, 1, CHOOSE i \in bad : \A j \in bad : i <= j)

\* the parts of a literal: sign, mantissa before and after the point, exponent
LiteralParts(s) ==
    LET Parts(t) ==
            LET u == Unsigned(t)
                e == FirstOf(u, {101, 69})
                word == [i \in 1..Len(u) |-> Lower(u[i])] \o <<>>
                Mantissa(mant, p) ==
                    [neg |-> t # <<>> /\ Head(t) = 45,
                     word |-> IF word \in {<<105, 110, 102>>,                 \* "inf"
                                           <<105, 110, 102, 105, 110, 105, 116, 121>>}
                              THEN "inf"                       \* "infinity"
                              ELSE IF word = <<110, 97, 110>> THEN "nan" ELSE "",
                     ip |-> SubSeq(mant, 1, p - 1),
                     fp |-> SubSeq(mant, p + 1, Len(mant)),
                     hasExp |-> e <= Len(u),
                     ex |-> SubSeq(u, e + 1, Len(u))]
            IN  Mantissa(SubSeq(u, 1, e - 1), FirstOf(SubSeq(u, 1, e - 1), {46}))
    IN  Parts(RStripOf(LStripOf(TransformDecimalAndSpaceToASCII(s), FloatWhitespace),
                       FloatWhitespace))

IsFloatLiteral(s) ==
    LET Literal(l) ==
            \/ l.word # ""
            \/ /\ l.ip = <<>> \/ DigitPart(l.ip)
               /\ l.fp = <<>> \/ DigitPart(l.fp)
               /\ l.ip # <<>> \/ l.fp # <<>>
               /\ l.hasExp => DigitPart(Unsigned(l.ex))
    IN  Literal(LiteralParts(s))

\* the exponent a digit sequence writes, as strtod reads it: 1100000000 when
\* more than nine digits follow its leading zeros
SmallNat(ds) ==
    LET RECURSIVE val(_, _)
        val(d, i) == IF i = 0 THEN 0 ELSE 10 * val(d, i - 1) + DigitVal(d[i])
        Capped(d) == IF Len(d) > 9 THEN 1100000000 ELSE val(d, Len(d))
    IN  Capped(LStripOf(ds, {48}))

\* repr of the double x, negated when neg; <<105, 110, 102>> is "inf"
FloatOfDouble(neg, x) ==
    LET Repr(r) == Float(FormatRepr(neg, r.digits, r.decpt))
    IN  IF x.inf THEN Float((IF neg THEN <<45>> ELSE <<>>) \o <<105, 110, 102>>)
        ELSE IF x.m = <<>> THEN Float(FormatRepr(neg, <<>>, 0))
        ELSE Repr(Shortest(x.m, x.q))

\* repr(float) of the decimal 0.ds * 10^decpt, ds without zeros at its ends
FloatOfDecimal(v) ==
    IF v.word = "nan" THEN NaN
    ELSE IF v.word = "inf" \/ (v.ds # <<>> /\ v.decpt > 309)
    THEN Float((IF v.neg THEN <<45>> ELSE <<>>) \o <<105, 110, 102>>)
    ELSE IF v.ds = <<>> \/ v.decpt < -323 THEN Float(FormatRepr(v.neg, <<>>, 0))
    ELSE IF Len(v.ds) <= 15 /\ v.decpt >= -290 /\ v.decpt <= 300
    \* at most 15 significant digits of a normal double read back unchanged
    THEN Float(FormatRepr(v.neg, v.ds, v.decpt))
    ELSE FloatOfDouble(v.neg, ToDouble(BFromDigits(v.ds), v.decpt - Len(v.ds)))

\* repr(float(s)) for a literal s
FloatOfStr(s) ==
    LET Decimal(l, fp, all) ==
            [neg |-> l.neg, word |-> l.word, ds |-> RStripOf(all, {48}),
             decpt |-> Len(all) - Len(fp)
                       + (IF ~l.hasExp THEN 0
                          ELSE IF Head(l.ex) = 45
                          THEN -SmallNat(Remove(Unsigned(l.ex), 95))
                          ELSE SmallNat(Remove(Unsigned(l.ex), 95)))]
        Parts(l) == Decimal(l, Remove(l.fp, 95),
                            LStripOf(Remove(l.ip, 95) \o Remove(l.fp, 95), {48}))
    IN  FloatOfDecimal(Parts(LiteralParts(s)))

\* float(v) raises for this value
FloatRaises(v) == v.t \notin {"float", "NaN"} /\ ~(v.t = "str" /\ IsFloatLiteral(v.v))

-----------------------------------------------------------------------------
(* dict *)

Keys(d) == [i \in 1..Len(d) |-> d[i][1]]
Has(d, k) == \E i \in 1..Len(d) : d[i][1] = k
Get(d, k) == d[CHOOSE i \in 1..Len(d) : d[i][1] = k][2]
Set(d, k, v) ==
    IF Has(d, k)
    THEN [i \in 1..Len(d) |-> IF d[i][1] = k THEN <<k, v>> ELSE d[i]]
    ELSE Append(d, <<k, v>>)

-----------------------------------------------------------------------------
(* The artifact: its "prep" stage's (name, columns) pairs and whether its   *)
(* "model" stage has predict_proba.                                         *)

NoPipeline == [prep |-> <<>>, proba |-> FALSE, loaded |-> FALSE]

RECURSIVE LastCols(_, _, _)
LastCols(ts, name, acc) ==
    IF ts = <<>> THEN acc
    ELSE LastCols(Tail(ts), name, IF Head(ts).name = name THEN Head(ts).cols ELSE acc)

get_expected_input_columns(p) ==
    <<LastCols(p.prep, "num", <<>>), LastCols(p.prep, "cat", <<>>)>>

-----------------------------------------------------------------------------
(* Numeric coercion *)

NumericFields == <<GrossWt, DegSat, CBR>>

\* .replace("%", "").strip() on a str; "%" is 37
StripSaturation(d) ==
    IF Has(d, DegSat) /\ Get(d, DegSat).t = "str"
    THEN Set(d, DegSat, Str(Strip(Remove(Get(d, DegSat).v, 37))))
    ELSE d

\* mutant of TryFloat: a failed conversion stores None
TryFloatOrNone(v) ==
    IF v.t \in {"float", "NaN"} THEN v
    ELSE IF v.t = "str" /\ IsFloatLiteral(v.v) THEN FloatOfStr(v.v)
    ELSE None

TryFloat(v) ==
    IF v.t \in {"float", "NaN"} THEN v
    ELSE IF v.t = "str" /\ IsFloatLiteral(v.v) THEN FloatOfStr(v.v)
    ELSE v

CoerceField(d, k) ==
    IF Has(d, k) /\ Get(d, k) \notin {None, Str(<<>>)}
    THEN Set(d, k, TryFloat(Get(d, k)))
    ELSE d

RECURSIVE CoerceLoop(_, _)
CoerceLoop(d, ks) ==
    IF ks = <<>> THEN d ELSE CoerceLoop(CoerceField(d, Head(ks)), Tail(ks))

coerce_numeric(d) == CoerceLoop(StripSaturation(d), NumericFields)

-----------------------------------------------------------------------------
(* DataFrame *)

NoTable == [columns |-> <<>>, rows |-> <<>>]

RECURSIVE Union1(_, _)
Union1(acc, ks) ==
    IF ks = <<>> THEN acc
    ELSE Union1(IF Head(ks) \in SeqToSet(acc) THEN acc ELSE Append(acc, Head(ks)),
                Tail(ks))

RECURSIVE AllKeys(_, _)
AllKeys(acc, ds) ==
    IF ds = <<>> THEN acc ELSE AllKeys(Union1(acc, Keys(Head(ds))), Tail(ds))

\* pd.DataFrame(list of dicts): a key a dict lacks is NaN; a column that
\* holds a float or NaN and otherwise only None is a float64 column, its
\* None cells NaN; any other column keeps its cells as they are
DataFrame(ds) ==
    LET cols == AllKeys(<<>>, ds)
        cell(r, c) == IF Has(ds[r], cols[c]) THEN Get(ds[r], cols[c]) ELSE NaN
        float64(c) ==
            /\ \E r \in 1..Len(ds) : cell(r, c).t \in {"float", "NaN"}
            /\ \A r \in 1..Len(ds) : cell(r, c).t \in {"float", "NaN", "None"}
    IN  [columns |-> cols,
         rows |-> [r \in 1..Len(ds) |->
                    [c \in 1..Len(cols) |->
                        IF cell(r, c) = None /\ float64(c) THEN NaN ELSE cell(r, c)]]]

ColIndex(df, c) == CHOOSE i \in 1..Len(df.columns) : df.columns[i] = c
HasCol(df, c) == c \in SeqToSet(df.columns)

\* mutant of reindex: the frame's own columns, filtered, in the frame's order
reindex_source_order(df, cols) ==
    LET keep == Filter(df.columns, SeqToSet(df.columns) \ SeqToSet(cols))
    IN  [columns |-> keep,
         rows |-> [r \in 1..Len(df.rows) |->
                    [c \in 1..Len(keep) |-> df.rows[r][ColIndex(df, keep[c])]]]]

\* df.reindex(columns=cols)
reindex(df, cols) ==
    [columns |-> cols,
     rows |-> [r \in 1..Len(df.rows) |->
                [c \in 1..Len(cols) |->
                    IF HasCol(df, cols[c]) THEN df.rows[r][ColIndex(df, cols[c])]
                    ELSE NaN]]]

\* mutant of build_input_df: the reindex forgotten
build_input_df_unordered(p, row_dict) ==
    DataFrame(<<CoerceLoop(StripSaturation(row_dict), NumericFields)>>)

build_input_df(p, row_dict) ==
    LET nc == get_expected_input_columns(p)
        d == CoerceLoop(StripSaturation(row_dict), NumericFields)
    IN  reindex(DataFrame(<<d>>), nc[1] \o nc[2])

-----------------------------------------------------------------------------
(* Choice Extractor *)

\* Python's a < b on str: by code points
RECURSIVE StrLess(_, _)
StrLess(a, b) ==
    IF b = <<>> THEN FALSE
    ELSE IF a = <<>> THEN TRUE
    ELSE IF Head(a) = Head(b) THEN StrLess(Tail(a), Tail(b))
    ELSE Head(a) < Head(b)

RECURSIVE InsertSorted(_, _)
InsertSorted(xs, x) ==
    IF xs = <<>> THEN <<x>>
    ELSE IF StrLess(x, Head(xs)) THEN <<x>> \o xs
    ELSE <<Head(xs)>> \o InsertSorted(Tail(xs), x)

\* sorted(list of str)
RECURSIVE sorted(_)
sorted(xs) == IF xs = <<>> THEN <<>> ELSE InsertSorted(sorted(Tail(xs)), Head(xs))

\* Series.unique(): first occurrences, in order
RECURSIVE unique(_, _)
unique(acc, xs) ==
    IF xs = <<>> THEN acc
    ELSE unique(IF Head(xs) \in SeqToSet(acc) THEN acc ELSE Append(acc, Head(xs)),
                Tail(xs))

\* .dropna().astype(str).str.strip()
CellStrings(cells) ==
    LET kept == Filter(cells, {NaN, None})
    IN  [i \in 1..Len(kept) |-> Strip(kept[i].v)]

\* mutant of ChoiceValues: the sort forgotten
ChoiceValuesUnsorted(cells) == Filter(unique(<<>>, CellStrings(cells)), {<<>>})

\* sorted([v for v in vals.unique().tolist() if v != ""])
ChoiceValues(cells) == sorted(Filter(unique(<<>>, CellStrings(cells)), {<<>>}))

TargetColumns == <<AircraftName, SoilType, FAACat>>

\* pd.read_excel(..., sheet_name="data") raises
ReadDataRaises(wb) ==
    ~wb.readable \/ ~\E i \in 1..Len(wb.sheets) : wb.sheets[i].name = "data"

ReadSheet(wb) ==
    IF ReadDataRaises(wb) THEN wb.sheets[1].cols
    ELSE wb.sheets[CHOOSE i \in 1..Len(wb.sheets) : wb.sheets[i].name = "data"].cols

\* df.columns = [str(c).strip() for c in df.columns]
StripHeaders(cols) == [i \in 1..Len(cols) |-> [cols[i] EXCEPT !.header = Strip(@)]]

HeaderCount(cols, c) == Cardinality({i \in 1..Len(cols) : cols[i].header = c})

ColumnCells(cols, c) == cols[CHOOSE i \in 1..Len(cols) : cols[i].header = c].cells

RECURSIVE ChoiceLoop(_, _, _)
ChoiceLoop(cols, targets, acc) ==
    IF targets = <<>> THEN acc
    ELSE ChoiceLoop(cols, Tail(targets),
            IF HeaderCount(cols, Head(targets)) > 0
            THEN Append(acc, <<Head(targets), ChoiceValues(ColumnCells(cols, Head(targets)))>>)
            ELSE acc)

\* pd.Series(df[col]) raises when two headers trim to the same target: df[col]
\* is then two-dimensional
SeriesRaises(cols) ==
    \E i \in 1..Len(TargetColumns) : HeaderCount(cols, TargetColumns[i]) > 1

extract_choices_from_excel(wb) ==
    IF ~wb.readable THEN [raised |-> TRUE, choices |-> <<>>]
    ELSE LET cols == StripHeaders(ReadSheet(wb))
         IN  IF SeriesRaises(cols) THEN [raised |-> TRUE, choices |-> <<>>]
             ELSE [raised |-> FALSE, choices |-> ChoiceLoop(cols, TargetColumns, <<>>)]

-----------------------------------------------------------------------------
(* Widgets: the values the input widgets return in one run *)

AddIf(d, cond, k, v) == IF cond THEN Set(d, k, v) ELSE d

NumericWidgets(nc, w) ==
    LET n == SeqToSet(nc)
        d1 == AddIf(<<>>, GrossWt \in n, GrossWt, w.gross)
        d2 == AddIf(d1, DegSat \in n, DegSat, w.sat)
    IN  AddIf(d2, CBR \in n, CBR, w.cbr)

\* for c in cat_cols: if c is none of skip and c not in row: row[c] = text_input
RECURSIVE OtherFields(_, _, _, _)
OtherFields(d, cs, skip, v) ==
    IF cs = <<>> THEN d
    ELSE OtherFields(AddIf(d, Head(cs) \notin skip /\ ~Has(d, Head(cs)), Head(cs), v),
                     Tail(cs), skip, v)

\* app.py: row_base, everything except Aircraft Name
BatchRowBase(nc, cc, w) ==
    LET c == SeqToSet(cc)
        d1 == NumericWidgets(nc, w)
        d2 == AddIf(d1, SoilType \in c, SoilType, Str(w.soil))
        d3 == AddIf(d2, FAACat \in c, FAACat, Str(w.faa))
    IN  OtherFields(d3, cc, {AircraftName, SoilType, FAACat}, Str(w.other))

\* app.py.py: row
SingleRow(nc, cc, w) ==
    LET c == SeqToSet(cc)
        d1 == NumericWidgets(nc, w)
        d2 == AddIf(d1, AircraftName \in c, AircraftName, Str(w.aircraft))
        d3 == AddIf(d2, SoilType \in c, SoilType, Str(w.soil))
        d4 == AddIf(d3, FAACat \in c, FAACat, Str(w.faa))
    IN  OtherFields(d4, cc, {}, Str(w.other))

\* free.split(","); "," is 44
RECURSIVE Split(_, _)
Split(s, cur) ==
    IF s = <<>> THEN <<cur>>
    ELSE IF Head(s) = 44 THEN <<cur>> \o Split(Tail(s), <<>>)
    ELSE Split(Tail(s), Append(cur, Head(s)))

\* [a.strip() for a in free.split(",") if a.strip()]
ParseAircraftText(free) ==
    LET parts == Split(free, <<>>)
    IN  Filter([i \in 1..Len(parts) |-> Strip(parts[i])], {<<>>})

-----------------------------------------------------------------------------
(* Predict handlers *)

\* the names the import statements of app.py bind
ImportedNames == {"io", "joblib", "pd", "st"}
np_defined == "np" \in ImportedNames

Msg(kind, text) == [kind |-> kind, text |-> text]
PredictionFailed == Msg("error", "Prediction failed")
SelectWarning == Msg("warning", "Please select at least one aircraft.")

Call(fn, X) == [fn |-> fn, X |-> X]

\* Probabilities are in ten-thousandths, round(3) and :.3f give thousandths.

\* f"{prob:.3f}": the exact value of the double, to the nearest thousandth,
\* ties to even.  Probabilities are in ten-thousandths, the result in thousandths.
Format3f(p) ==
    LET k == p \div 10
        \* the double nearest p / 10^4 against p / 10^4 itself
        Up(c) == IF c > 0 \/ (c = 0 /\ k % 2 = 1) THEN k + 1 ELSE k
    IN  IF p % 10 # 5 THEN (p + 5) \div 10
        ELSE Up(DoubleCmp(ToDouble(BCarry(<<p>>), -4), BCarry(<<p>>), <<0, 10>>))

\* ndarray.round(3): rint(x * 1000.0) / 1000.0, the product rounded to a
\* double first and rint taking ties to even
Round3(p) ==
    LET k == p \div 10
        \* the double x * 1000.0 against k + 1/2
        Up(c) == IF c > 0 \/ (c = 0 /\ k % 2 = 1) THEN k + 1 ELSE k
    IN  IF p % 10 # 5 THEN (p + 5) \div 10
        ELSE Up(DoubleCmp(DoubleTimes(ToDouble(BCarry(<<p>>), -4), 1000),
                          BCarry(<<2 * k + 1>>), <<2>>))

\* mutant of SelectionRejected: no check of the selection
NeverRejected(cc, sel) == FALSE

\* if "Aircraft Name" in cat_cols and not aircraft_selected: warning, st.stop()
SelectionRejected(cc, sel) == AircraftName \in SeqToSet(cc) /\ sel = <<>>

\* mutant of ExpandRows: d = row_base without the copy, every row is the
\* same dict and carries the last identifier
ExpandRowsAliased(cc, rb, sel) ==
    IF AircraftName \in SeqToSet(cc)
    THEN [i \in 1..Len(sel) |-> Set(rb, AircraftName, Str(sel[Len(sel)]))]
    ELSE <<rb>>

\* one row per selected aircraft, or the single shared row
ExpandRows(cc, rb, sel) ==
    IF AircraftName \in SeqToSet(cc)
    THEN [i \in 1..Len(sel) |-> Set(rb, AircraftName, Str(sel[i]))]
    ELSE <<rb>>

\* np.where(pred.astype(int) == 1, "Overloaded", "Safe")
BatchLabel(l) == IF l = 1 THEN "Overloaded" ELSE "Safe"
\* "Overload" if int(pred) == 1 else "Safe"
SingleLabel(l) == IF l = 1 THEN "Overload" ELSE "Safe"

Column(df, c) == [r \in 1..Len(df.rows) |-> df.rows[r][ColIndex(df, c)]]

\* .fillna("").astype(str)
FillStr(vals) ==
    [i \in 1..Len(vals) |-> IF vals[i] \in {NaN, None} THEN Str(<<>>) ELSE Str(vals[i].v)]

OutCol(name, vals) == [name |-> name, vals |-> vals]

ContextColumns ==
    <<[src |-> AircraftName, loc |-> 0, name |-> "Aircraft", str |-> TRUE],
      [src |-> GrossWt, loc |-> 1, name |-> "Gross Wt. (lbs)", str |-> FALSE],
      [src |-> DegSat, loc |-> 2, name |-> "Degree of saturation", str |-> FALSE],
      [src |-> SoilType, loc |-> 3, name |-> "Soil", str |-> FALSE],
      [src |-> FAACat, loc |-> 4, name |-> "FAA Category", str |-> FALSE]>>

\* out.insert(loc, name, values): IndexError when loc > len(out.columns)
RECURSIVE InsertLoop(_, _, _)
InsertLoop(acc, X, steps) ==
    IF steps = <<>> \/ acc.raised THEN acc
    ELSE LET st == Head(steps)
         IN  IF ~HasCol(X, st.src) THEN InsertLoop(acc, X, Tail(steps))
             ELSE IF st.loc > Len(acc.out)
             THEN [raised |-> TRUE, out |-> acc.out]
             ELSE InsertLoop(
                    [raised |-> FALSE,
                     out |-> SubSeq(acc.out, 1, st.loc)
                             \o <<OutCol(st.name, IF st.str THEN FillStr(Column(X, st.src))
                                                  ELSE Column(X, st.src))>>
                             \o SubSeq(acc.out, st.loc + 1, Len(acc.out))],
                    X, Tail(steps))

ResultsTable(X, labels) ==
    InsertLoop([raised |-> FALSE, out |-> <<OutCol("Prediction", labels)>>], X,
               ContextColumns)

HandlerResult(ui0, stopped, rows, X, calls, out, exc, swallowed, labels, probs, po) ==
    [ran |-> TRUE, ui |-> ui0, stopped |-> stopped, rows |-> rows, X |-> X,
     sent |-> calls, out |-> out, exc |-> exc, swallowed |-> swallowed,
     labels |-> labels, probs |-> probs, pred |-> po]

NoPred == [raises |-> FALSE, labels |-> <<>>]

\* no Predict handler has run in this script run
NoResult ==
    [HandlerResult(<<>>, FALSE, <<>>, NoTable, <<>>, <<>>, "", FALSE, <<>>, <<>>, NoPred)
        EXCEPT !.ran = FALSE]

\* mutant of ExceptHandlerUI: except Exception: pass
ExceptHandlerSilent == <<>>

\* except Exception as e: st.error(f"Prediction failed: {e}")
ExceptHandlerUI == <<PredictionFailed>>

\* app.py: the body of `if st.button("Predict"):`
BatchHandler(p, nc, cc, rb, sel, po, pr) ==
    IF SelectionRejected(cc, sel)
    THEN HandlerResult(<<SelectWarning>>, TRUE, <<>>, NoTable, <<>>, <<>>, "", FALSE,
                       <<>>, <<>>, NoPred)
    ELSE
    LET rows0 == ExpandRows(cc, rb, sel)
        rows == [i \in 1..Len(rows0) |-> coerce_numeric(rows0[i])]
        X == reindex(DataFrame(rows), nc \o cc)
        labels == [i \in 1..Len(po.labels) |-> BatchLabel(po.labels[i])]
        askProba == p.proba
        probs == IF askProba /\ ~pr.raises
                 THEN [i \in 1..Len(pr.probs) |-> Round3(pr.probs[i][2])] ELSE <<>>
        tab == ResultsTable(X, labels)
        exc == IF po.raises THEN "predict"
               ELSE IF ~np_defined THEN "NameError"
               ELSE IF askProba /\ pr.raises THEN "predict_proba"
               ELSE IF tab.raised THEN "IndexError"
               ELSE ""
        calls == <<Call("predict", X)>>
                 \o (IF ~po.raises /\ np_defined /\ askProba
                     THEN <<Call("predict_proba", X)>> ELSE <<>>)
        out == IF askProba THEN Append(tab.out, OutCol("P(Overloaded)", probs))
               ELSE tab.out
    IN  IF exc # ""
        THEN HandlerResult(ExceptHandlerUI, FALSE, rows0, X, calls, <<>>, exc, FALSE,
                           <<>>, <<>>, po)
        ELSE HandlerResult(<<Msg("subheader", "Results"), Msg("dataframe", "out"),
                             Msg("expander", "Show input rows (debug)")>>,
                           FALSE, rows0, X, calls, out, "", FALSE, labels, probs, po)

\* app.py.py: the body of `if st.button("Predict"):`
SingleHandler(p, row, po, pr) ==
    LET X == build_input_df(p, row)
        label == SingleLabel(po.labels[1])
        \* pipeline.predict_proba is an AttributeError without the capability
        probaRaises == ~p.proba \/ pr.raises
        calls == <<Call("predict", X)>>
                 \o (IF ~po.raises /\ p.proba THEN <<Call("predict_proba", X)>> ELSE <<>>)
        probs == IF probaRaises THEN <<>> ELSE <<Format3f(pr.probs[1][2])>>
    IN  IF po.raises
        THEN HandlerResult(ExceptHandlerUI, FALSE, <<row>>, X, calls, <<>>, "predict",
                           FALSE, <<>>, <<>>, po)
        ELSE HandlerResult(<<Msg("success", label)>>
                             \o (IF probaRaises THEN <<>>
                                 ELSE <<Msg("write", "Probability of Overload")>>)
                             \o <<Msg("expander", "Show input row (debug)")>>,
                           FALSE, <<row>>, X, calls, <<>>, "", probaRaises,
                           <<label>>, probs, po)

-----------------------------------------------------------------------------
(* Inputs of the pure-function specifications *)

Artifact(prep, proba) == [prep |-> prep, proba |-> proba, loaded |-> TRUE]

ArtFull ==
    Artifact(<<[name |-> "num", cols |-> <<GrossWt, DegSat, CBR>>],
               [name |-> "cat", cols |-> <<AircraftName, SoilType, FAACat>>]>>, TRUE)
ArtNumOnly ==
    Artifact(<<[name |-> "num", cols |-> <<CBR, GrossWt>>],
               [name |-> "remainder", cols |-> <<>>]>>, FALSE)
ArtCatOnly ==
    Artifact(<<[name |-> "cat", cols |-> <<SoilType, AircraftName, Runway>>]>>, TRUE)

Artifacts == {ArtFull, ArtNumOnly, ArtCatOnly}

\* "5", "0", ".", "%", " ", "x"
NumChars == {53, 48, 46, 37, 32, 120}

\* strings of note beyond those: U+3000 "x%", U+3000 "5", "5" U+0085,
\* U+00A0 "%", the Arabic-Indic "١٥" (15), the fullwidth "５", "é", "1e5",
\* "nan", "5_0", and FS "5" (stripped by str.strip(), refused by float())
NotableStrings ==
    {<<12288, 120, 37>>, <<12288, 53>>, <<53, 133>>, <<160, 37>>, <<1633, 1637>>,
     <<65301>>, <<233>>, <<49, 101, 53>>, <<110, 97, 110>>, <<53, 95, 48>>,
     <<28, 53>>}
RawStrings == StringsUpTo(NumChars, MaxLen) \cup NotableStrings

KeyUniverse == {GrossWt, DegSat, CBR, AircraftName, Runway}
KeySeqs ==
    {ks \in StringsUpTo(KeyUniverse, MaxKeys) :
        \A i, j \in 1..Len(ks) : i # j => ks[i] # ks[j]}

Float80 == Float(<<56, 48, 46, 48>>)        \* 80.0

\* the value a raw row holds for key k: numeric fields hold nv
RawRow(ks, nv) ==
    [i \in 1..Len(ks) |->
        <<ks[i], IF ks[i] \in SeqToSet(NumericFields) THEN nv ELSE Str(<<65>>)>>]   \* "A"

RawRows(keyseqs, strings) ==
    {RawRow(ks, nv) : ks \in keyseqs,
                      nv \in {Str(s) : s \in strings} \cup {Float80, None}}

IdleSession ==
    /\ app = "batch"
    /\ pc = "idle"
    /\ pipeline = NoPipeline
    /\ num_cols = <<>>
    /\ cat_cols = <<>>
    /\ choices = <<>>
    /\ row_base = <<>>
    /\ aircraft_selected = <<>>
    /\ ui = <<>>
    /\ sent = <<>>
    /\ hres = NoResult
    /\ failedBefore = FALSE

(* Input Reconciler on every raw row and schema *)

InitReconcile ==
    /\ IdleSession
    /\ phase = "input"
    /\ input \in {[art |-> a, row |-> r] : a \in Artifacts, r \in RawRows(KeySeqs, RawStrings)}
    /\ result = <<>>

Reconcile ==
    /\ phase = "input"
    /\ phase' = "done"
    /\ LET nc == get_expected_input_columns(input.art)
           d == coerce_numeric(input.row)
       IN  result' = [coerced |-> d,
                      X |-> reindex(DataFrame(<<d>>), nc[1] \o nc[2]),
                      X1 |-> build_input_df(input.art, input.row)]
    /\ UNCHANGED <<input, sessionVars>>

SpecReconcile == InitReconcile /\ [][Reconcile]_vars

(* Choice Extractor on every workbook *)

\* cells over "A" and " ", and the cells "é", U+3000 "A", "B", 5.0 and nan
CellValues ==
    {Str(s) : s \in StringsUpTo({65, 32}, MaxCellLen)}
        \cup {Str(<<233>>), Str(<<12288, 65>>), Str(<<66>>),
              Float(<<53, 46, 48>>), NaN}
CellLists == StringsUpTo(CellValues, MaxCells)

Col(h, cells) == [header |-> h, cells |-> cells]
OtherCells == <<Str(<<66>>), Str(<<65>>)>>     \* "B", "A"

Layouts(cs) ==
    { <<Col(AircraftName, cs)>>,
      <<Col(<<32>> \o SoilType \o <<32>>, cs), Col(AircraftName, OtherCells)>>,
      <<Col(Runway, cs), Col(FAACat, cs)>>,
      <<Col(AircraftName, cs), Col(AircraftName \o <<32>>, OtherCells)>> }

Workbook(sheets) == [readable |-> TRUE, sheets |-> sheets]
Unreadable == [readable |-> FALSE, sheets |-> <<>>]

Workbooks(lists) ==
    {Unreadable}
    \cup {Workbook(<<[name |-> "data", cols |-> l]>>) : l \in UNION {Layouts(cs) : cs \in lists}}
    \cup {Workbook(<<[name |-> "Sheet1", cols |-> <<Col(SoilType, cs)>>]>>) : cs \in lists}
    \cup {Workbook(<<[name |-> "Sheet1", cols |-> <<Col(SoilType, OtherCells)>>],
                     [name |-> "data", cols |-> <<Col(FAACat, cs)>>]>>) : cs \in lists}

InitExcel ==
    /\ IdleSession
    /\ phase = "input"
    /\ input \in Workbooks(CellLists)
    /\ result = <<>>

ExtractChoices ==
    /\ phase = "input"
    /\ phase' = "done"
    /\ result' = extract_choices_from_excel(input)
    /\ UNCHANGED <<input, sessionVars>>

SpecExcel == InitExcel /\ [][ExtractChoices]_vars

-----------------------------------------------------------------------------
(* The session: every interaction reruns the script from its first line *)

TextValues == {<<>>, <<65>>}                            \* "", "A"
AircraftTexts == StringsUpTo({65, 44, 32}, MaxText)     \* over "A", ",", " "

WbChoices ==
    Workbook(<<[name |-> "data",
                cols |-> <<Col(AircraftName, <<Str(<<66>>), Str(<<65, 32>>), Str(<<65>>),
                                            Str(<<65, 65>>)>>),
                           Col(SoilType, <<Str(<<66>>), NaN>>)>>]>>)
WbNoAircraft ==
    Workbook(<<[name |-> "Sheet1", cols |-> <<Col(FAACat, <<Str(<<65>>)>>)>>]>>)
WbDuplicate ==
    Workbook(<<[name |-> "data",
                cols |-> <<Col(AircraftName, <<Str(<<65>>)>>),
                           Col(<<32>> \o AircraftName, <<Str(<<66>>)>>)>>]>>)
SessionWorkbooks == {Unreadable, WbChoices, WbNoAircraft, WbDuplicate}

DefaultNumbers ==
    [gross |-> Float(<<49, 50, 48, 48, 48, 48, 46, 48>>),     \* 120000.0
     sat |-> Float80,
     cbr |-> Float(<<54, 46, 48>>)]                            \* 6.0

Widgets(soil, faa, other, aircraft) ==
    [gross |-> DefaultNumbers.gross, sat |-> DefaultNumbers.sat, cbr |-> DefaultNumbers.cbr,
     soil |-> soil, faa |-> faa, other |-> other, aircraft |-> aircraft]

\* selectbox over [""] + choices[col] when the Choice Table has col, else free text
FieldOptions(ch, col) ==
    IF Has(ch, col) THEN {<<>>} \cup SeqToSet(Get(ch, col)) ELSE TextValues

\* multiselect: any arrangement of distinct options
Arrangements(opts) ==
    {a \in StringsUpTo(SeqToSet(opts), Len(opts)) :
        \A i, j \in 1..Len(a) : i # j => a[i] # a[j]}

AircraftSelections(cc, ch) ==
    IF AircraftName \notin SeqToSet(cc) THEN {<<>>}
    ELSE IF Has(ch, AircraftName) /\ Get(ch, AircraftName) # <<>>
    THEN Arrangements(Get(ch, AircraftName))
    ELSE {ParseAircraftText(t) : t \in AircraftTexts}

LabelValues == {0, 1, 2}
ProbPairs == {<<8766, 1234>>, <<1235, 8765>>}
PredictOutcomes(n) ==
    {[raises |-> TRUE, labels |-> <<>>]}
        \cup {[raises |-> FALSE, labels |-> l] : l \in [1..n -> LabelValues]}
ProbaOutcomes(n) ==
    {[raises |-> TRUE, probs |-> <<>>]}
        \cup {[raises |-> FALSE, probs |-> ps] : ps \in [1..n -> ProbPairs]}

HasFailure(elems) == \E i \in 1..Len(elems) : elems[i] = PredictionFailed

Init ==
    /\ IdleSession
    /\ phase = "session"
    /\ input = <<>>
    /\ result = <<>>

pureVars == <<phase, input, result>>

\* the user interacts: the script starts over
StartRun ==
    /\ phase = "session"
    /\ pc = "idle"
    /\ pc' = "upload"
    /\ app' \in {"batch", "single"}
    /\ failedBefore' = (failedBefore \/ HasFailure(ui))
    /\ pipeline' = NoPipeline
    /\ num_cols' = <<>>
    /\ cat_cols' = <<>>
    /\ choices' = <<>>
    /\ row_base' = <<>>
    /\ aircraft_selected' = <<>>
    /\ ui' = <<>>
    /\ sent' = <<>>
    /\ hres' = NoResult
    /\ UNCHANGED pureVars

\* lines 65-68: no file in the uploader
NoUpload ==
    /\ pc = "upload"
    /\ ui' = Append(ui, Msg("info", "Upload your .joblib pipeline to begin."))
    /\ pc' = "idle"
    /\ UNCHANGED <<app, pipeline, num_cols, cat_cols, choices, row_base,
                   aircraft_selected, sent, hres, failedBefore, pureVars>>

\* mutant of AfterLoadFailure: st.stop() forgotten, the run goes on
ContinueAfterLoadFailure == "excel"

\* st.stop() after a failed load ends the run
AfterLoadFailure == "idle"

\* lines 70-75: joblib.load raises
LoadFails ==
    /\ pc = "upload"
    /\ ui' = Append(ui, Msg("error", "Failed to load model"))
    /\ pc' = AfterLoadFailure
    /\ UNCHANGED <<app, pipeline, num_cols, cat_cols, choices, row_base,
                   aircraft_selected, sent, hres, failedBefore, pureVars>>

\* lines 70-77: joblib.load returns the artifact
LoadOK(a) ==
    /\ pc = "upload"
    /\ pipeline' = a
    /\ ui' = Append(ui, Msg("success", "Model loaded."))
    /\ num_cols' = get_expected_input_columns(a)[1]
    /\ cat_cols' = get_expected_input_columns(a)[2]
    /\ pc' = "excel"
    /\ UNCHANGED <<app, choices, row_base, aircraft_selected, sent, hres,
                   failedBefore, pureVars>>

\* lines 83-85: no spreadsheet
NoExcel ==
    /\ pc = "excel"
    /\ choices' = <<>>
    /\ pc' = "inputs"
    /\ UNCHANGED <<app, pipeline, num_cols, cat_cols, row_base, aircraft_selected,
                   ui, sent, hres, failedBefore, pureVars>>

\* lines 85-90
ReadExcel(wb) ==
    /\ pc = "excel"
    /\ LET r == extract_choices_from_excel(wb)
       IN  /\ choices' = r.choices
           /\ ui' = Append(ui, IF r.raised THEN Msg("warning", "Could not read Excel")
                               ELSE Msg("success", "Dropdown choices loaded from Excel."))
    /\ pc' = "inputs"
    /\ UNCHANGED <<app, pipeline, num_cols, cat_cols, row_base, aircraft_selected,
                   sent, hres, failedBefore, pureVars>>

\* app.py lines 96-149
BatchInputs ==
    /\ pc = "inputs"
    /\ app = "batch"
    /\ \E soil \in FieldOptions(choices, SoilType), faa \in FieldOptions(choices, FAACat),
          other \in TextValues, sel \in AircraftSelections(cat_cols, choices) :
            /\ row_base' = BatchRowBase(num_cols, cat_cols, Widgets(soil, faa, other, <<>>))
            /\ aircraft_selected' = sel
    /\ pc' = "button"
    /\ UNCHANGED <<app, pipeline, num_cols, cat_cols, choices, ui, sent, hres,
                   failedBefore, pureVars>>

\* app.py.py lines 95-117
SingleInputs ==
    /\ pc = "inputs"
    /\ app = "single"
    /\ \E soil \in FieldOptions(choices, SoilType), faa \in FieldOptions(choices, FAACat),
          other \in TextValues, ac \in FieldOptions(choices, AircraftName) :
            row_base' = SingleRow(num_cols, cat_cols, Widgets(soil, faa, other, ac))
    /\ aircraft_selected' = <<>>
    /\ pc' = "button"
    /\ UNCHANGED <<app, pipeline, num_cols, cat_cols, choices, ui, sent, hres,
                   failedBefore, pureVars>>

\* st.button("Predict") is False: the run ends
NoClick ==
    /\ pc = "button"
    /\ pc' = "idle"
    /\ UNCHANGED <<app, pipeline, num_cols, cat_cols, choices, row_base,
                   aircraft_selected, ui, sent, hres, failedBefore, pureVars>>

\* app.py lines 154-223
BatchPredict ==
    /\ pc = "button"
    /\ app = "batch"
    /\ LET n == IF SelectionRejected(cat_cols, aircraft_selected) THEN 0
                ELSE Len(ExpandRows(cat_cols, row_base, aircraft_selected))
       IN  \E po \in PredictOutcomes(n), pr \in ProbaOutcomes(n) :
             hres' = BatchHandler(pipeline, num_cols, cat_cols, row_base,
                                  aircraft_selected, po, pr)
    /\ ui' = ui \o hres'.ui
    /\ sent' = hres'.sent
    /\ pc' = "idle"
    /\ UNCHANGED <<app, pipeline, num_cols, cat_cols, choices, row_base,
                   aircraft_selected, failedBefore, pureVars>>

\* app.py.py lines 122-136
SinglePredict ==
    /\ pc = "button"
    /\ app = "single"
    /\ \E po \in PredictOutcomes(1), pr \in ProbaOutcomes(1) :
         hres' = SingleHandler(pipeline, row_base, po, pr)
    /\ ui' = ui \o hres'.ui
    /\ sent' = hres'.sent
    /\ pc' = "idle"
    /\ UNCHANGED <<app, pipeline, num_cols, cat_cols, choices, row_base,
                   aircraft_selected, failedBefore, pureVars>>

Next ==
    \/ StartRun
    \/ NoUpload
    \/ LoadFails
    \/ \E a \in Artifacts : LoadOK(a)
    \/ NoExcel
    \/ \E wb \in SessionWorkbooks : ReadExcel(wb)
    \/ BatchInputs
    \/ SingleInputs
    \/ NoClick
    \/ BatchPredict
    \/ SinglePredict

Spec == Init /\ [][Next]_vars

-----------------------------------------------------------------------------
(* Both flows on the same schema, widget values and artifact answers *)

Idents == {<<>>, <<65>>, <<66>>}        \* "", "A", "B"

InitFlows ==
    /\ IdleSession
    /\ phase = "input"
    /\ input \in {[art |-> a, w |-> Widgets(soil, <<66>>, other, ident), po |-> po, pr |-> pr] :
                    a \in Artifacts, soil \in TextValues, other \in TextValues,
                    ident \in Idents, po \in PredictOutcomes(1), pr \in ProbaOutcomes(1)}
    /\ result = <<>>

RunBothFlows ==
    /\ phase = "input"
    /\ phase' = "done"
    /\ LET nc == get_expected_input_columns(input.art)[1]
           cc == get_expected_input_columns(input.art)[2]
           sel == IF input.w.aircraft = <<>> THEN <<>> ELSE <<input.w.aircraft>>
       IN  result' = [batch |-> BatchHandler(input.art, nc, cc,
                                             BatchRowBase(nc, cc, input.w), sel,
                                             input.po, input.pr),
                      single |-> SingleHandler(input.art, SingleRow(nc, cc, input.w),
                                               input.po, input.pr)]
    /\ UNCHANGED <<input, sessionVars>>

SpecFlows == InitFlows /\ [][RunBothFlows]_vars

-----------------------------------------------------------------------------
(* Properties *)

Count(elems, m) == Cardinality({i \in 1..Len(elems) : elems[i] = m})
CallsOf(calls, fn) == Cardinality({i \in 1..Len(calls) : calls[i].fn = fn})
Shown(elems, kind) == \E i \in 1..Len(elems) : elems[i].kind = kind
SubmissionDone == pc = "idle" /\ hres.ran
SchemaCols(a) == get_expected_input_columns(a)[1] \o get_expected_input_columns(a)[2]

\* C1: in the batch handler, for every label array predict returns, the
\* results table is shown and its Prediction column has one entry per row,
\* "Overloaded" where the label is 1 and "Safe" otherwise.
C1_LabelsRendered ==
    (app = "batch" /\ SubmissionDone /\ ~hres.stopped /\ ~hres.pred.raises
        /\ hres.exc # "predict_proba") =>
        /\ Len(hres.pred.labels) = Len(hres.rows)
        /\ hres.labels = [i \in 1..Len(hres.pred.labels) |->
                            IF hres.pred.labels[i] = 1 THEN "Overloaded" ELSE "Safe"]
        /\ Shown(hres.ui, "dataframe")
        /\ \E i \in 1..Len(hres.out) :
              hres.out[i].name = "Prediction" /\ hres.out[i].vals = hres.labels

\* C2: the reconciled table has exactly the columns num_cols ++ cat_cols in
\* that order, one row; a schema column the row holds carries the row's
\* coerced value, a schema column the row lacks is missing, and a row key
\* outside the schema is in no column.  Both flows' reconcilers agree.
C2_ReconciledColumns ==
    phase = "done" =>
        LET cols == SchemaCols(input.art)
            Expected(c) ==
                IF Has(input.row, c)
                THEN IF c \in SeqToSet(NumericFields)
                     THEN Get(result.coerced, c) ELSE Get(input.row, c)
                ELSE NaN
        IN  \A T \in {result.X, result.X1} :
              /\ T.columns = cols
              /\ Len(T.rows) = 1
              /\ Len(T.rows[1]) = Len(cols)
              /\ \A c \in 1..Len(cols) : T.rows[1][c] = Expected(cols[c])
              /\ \A i \in 1..Len(input.row) :
                    input.row[i][1] \notin SeqToSet(cols)
                        => input.row[i][1] \notin SeqToSet(T.columns)

\* a row with a key outside the schema, a schema column it lacks, and two
\* schema columns in the opposite order to the schema's
C2_Witness ==
    /\ phase = "done"
    /\ input.art = ArtFull
    /\ Keys(input.row) = <<CBR, Runway, GrossWt>>
    /\ result.X1.rows[1] = <<Float(<<53, 46, 48>>), NaN, Float(<<53, 46, 48>>),
                             NaN, NaN, NaN>>

\* C3: with "Aircraft Name" in the schema and nothing selected, the batch
\* submission shows the warning and ends: no predict or predict_proba call,
\* no results table, no 'Prediction failed'.
C3_EmptySelectionRejected ==
    (app = "batch" /\ SubmissionDone /\ AircraftName \in SeqToSet(cat_cols)
        /\ aircraft_selected = <<>>) =>
        /\ hres.ui = <<SelectWarning>>
        /\ hres.stopped
        /\ sent = <<>>
        /\ hres.sent = <<>>
        /\ ~HasFailure(ui)
        /\ ~Shown(ui, "dataframe")

\* a batch submission with "Aircraft Name" in the schema and nothing selected
C3_Witness ==
    /\ app = "batch"
    /\ SubmissionDone
    /\ AircraftName \in SeqToSet(cat_cols)
    /\ aircraft_selected = <<>>
    /\ Count(ui, SelectWarning) = 1

\* C4: with "Aircraft Name" in the schema and n >= 1 identifiers selected,
\* exactly n rows are generated in selection order, the i-th carrying the
\* i-th identifier and otherwise the shared fields; without "Aircraft Name"
\* in the schema exactly one row, the shared fields, with no identifier.
C4_BatchExpansion ==
    (app = "batch" /\ SubmissionDone /\ ~hres.stopped) =>
        IF AircraftName \in SeqToSet(cat_cols)
        THEN /\ Len(aircraft_selected) >= 1
             /\ Len(hres.rows) = Len(aircraft_selected)
             /\ \A i \in 1..Len(hres.rows) :
                  /\ Has(hres.rows[i], AircraftName)
                  /\ Get(hres.rows[i], AircraftName) = Str(aircraft_selected[i])
                  /\ SeqToSet(Keys(hres.rows[i]))
                        = SeqToSet(Keys(row_base)) \cup {AircraftName}
                  /\ \A k \in SeqToSet(Keys(row_base)) \ {AircraftName} :
                        Get(hres.rows[i], k) = Get(row_base, k)
        ELSE /\ hres.rows = <<row_base>>
             /\ ~Has(hres.rows[1], AircraftName)

\* three distinct identifiers selected, three rows
C4_Witness ==
    /\ app = "batch"
    /\ SubmissionDone
    /\ Len(hres.rows) = 3
    /\ Cardinality(SeqToSet(aircraft_selected)) = 3
    /\ Len(row_base) >= 3

\* the string float() is tried on: "Degree of saturation" has its percent
\* signs removed and is stripped first
Cleaned(k, v) ==
    IF k = DegSat /\ v.t = "str" THEN Str(Strip(Remove(v.v, 37))) ELSE v

ConversionFails(k, v) == FloatRaises(Cleaned(k, v))

CellOf(T, k) == T.rows[1][ColIndex(T, k)]

\* C5 as stated: when a known-numeric field cannot be converted, the value
\* passed on is exactly the value the row held, also for a "Degree of
\* saturation" string with a percent sign or surrounding whitespace.
C5_OriginalUnchanged ==
    phase = "done" =>
        \A i \in 1..Len(NumericFields) :
            LET k == NumericFields[i]
            IN  (Has(input.row, k) /\ ConversionFails(k, Get(input.row, k))) =>
                    /\ Get(result.coerced, k) = Get(input.row, k)
                    /\ \A T \in {result.X, result.X1} :
                          HasCol(T, k) => CellOf(T, k) = Get(input.row, k)

\* C5 amended: on conversion failure "Gross Wt. (lbs)" and "CBR" pass on
\* exactly the value the row held; "Degree of saturation" passes on the
\* row's string with its percent signs removed and its surrounding
\* whitespace stripped.  A convertible value is passed on as a float (nan,
\* pandas' missing value, for the literal "nan").
C5_CleanedUnchanged ==
    phase = "done" =>
        \A i \in 1..Len(NumericFields) :
            LET k == NumericFields[i]
                kept == IF k = DegSat THEN Cleaned(k, Get(input.row, k))
                        ELSE Get(input.row, k)
            IN  Has(input.row, k) =>
                    /\ Has(result.coerced, k)
                    /\ IF ConversionFails(k, Get(input.row, k))
                       THEN /\ Get(result.coerced, k) = kept
                            /\ \A T \in {result.X, result.X1} :
                                  HasCol(T, k) => CellOf(T, k) = kept
                       ELSE Get(result.coerced, k).t \in {"float", "NaN"}

\* "Degree of saturation" holds "x%", which does not convert, and the schema
\* has the column: "x" is passed on
C5_Witness ==
    /\ phase = "done"
    /\ Has(input.row, DegSat)
    /\ Get(input.row, DegSat) = Str(<<120, 37>>)
    /\ HasCol(result.X, DegSat)
    /\ CellOf(result.X, DegSat) = Str(<<120>>)
    /\ Has(input.row, CBR)

\* an exception was raised inside the submission
Raised(h) == h.exc # "" \/ h.pred.raises

\* C6 as stated: any exception raised inside the submission, predict_proba's
\* included, is shown as exactly one 'Prediction failed'.
C6_EveryExceptionShown ==
    (SubmissionDone /\ ~hres.stopped
        /\ (Raised(hres) \/ (hres.swallowed /\ pipeline.proba))) =>
        Count(hres.ui, PredictionFailed) = 1

\* a run that has ended, a failed submission included, leaves the session
\* ready for the next interaction: the script can start over
ReadyAgain ==
    pc = "idle" => ENABLED StartRun

\* a submission made after an earlier one of the session failed: in the
\* single-row flow it runs to completion whenever predict returns, the
\* prediction shown and no error; in the batch flow it is handled like any
\* other, ending in 'Prediction failed' once predict was reached (numpy is
\* not imported)
LaterSubmission ==
    (failedBefore /\ SubmissionDone) =>
        /\ (app = "single" /\ ~hres.pred.raises) =>
              /\ hres.labels = <<SingleLabel(hres.pred.labels[1])>>
              /\ Shown(hres.ui, "success")
              /\ Shown(hres.ui, "expander")
              /\ ~HasFailure(ui)
        /\ (app = "batch" /\ ~hres.stopped) => hres.ui = <<PredictionFailed>>
        /\ hres.pred.raises => hres.ui = <<PredictionFailed>>

\* C6 amended: an exception raised inside the submission is shown as exactly
\* one 'Prediction failed' and nothing else, except that the single-row flow
\* swallows an exception of predict_proba and keeps the prediction shown;
\* predict and predict_proba are each called at most once; the artifact, the
\* schema and the Choice Table are unchanged; the run ends idle, the session
\* can start over and submit again, and a later submission of the single-row
\* flow runs to completion whenever predict returns.
C6_CaughtOnceNoRetry ==
    /\ [][(pc = "button" /\ hres'.ran) =>
            /\ pc' = "idle"
            /\ pipeline' = pipeline
            /\ num_cols' = num_cols
            /\ cat_cols' = cat_cols
            /\ choices' = choices
            /\ ui' = ui \o hres'.ui
            /\ CallsOf(sent', "predict") <= 1
            /\ CallsOf(sent', "predict_proba") <= 1
            /\ (hres'.pred.raises => CallsOf(sent', "predict") = 1)
            /\ IF Raised(hres')
               THEN hres'.ui = <<PredictionFailed>>
               ELSE Count(hres'.ui, PredictionFailed) = 0
            /\ (app = "single" /\ ~hres'.pred.raises) =>
                  /\ Shown(hres'.ui, "success")
                  /\ Count(hres'.ui, PredictionFailed) = 0
         ]_vars
    /\ [](ReadyAgain /\ LaterSubmission)

\* after a failed submission, a later one of the single-row flow completes:
\* its prediction is shown although its predict_proba raised
C6_Witness ==
    /\ failedBefore
    /\ SubmissionDone
    /\ app = "single"
    /\ hres.swallowed
    /\ pipeline.proba
    /\ hres.labels = <<"Overload">>
    /\ ~HasFailure(ui)

\* C7: without the probability capability a submission whose predict
\* returns is no error, the labels are shown and no probability; with the
\* capability (and predict_proba returning) each row's probability is shown
\* beside its label.
C7_ProbabilityOptional ==
    (SubmissionDone /\ ~hres.stopped /\ ~hres.pred.raises) =>
        /\ ~pipeline.proba =>
              /\ ~HasFailure(hres.ui)
              /\ Len(hres.labels) = Len(hres.rows)
              /\ hres.probs = <<>>
        /\ (pipeline.proba /\ CallsOf(hres.sent, "predict_proba") = 1 /\ hres.exc = ""
                /\ ~hres.swallowed) =>
              /\ Len(hres.labels) = Len(hres.rows)
              /\ Len(hres.probs) = Len(hres.rows)
        /\ pipeline.proba => CallsOf(hres.sent, "predict_proba") = 1

\* C8: the Choice Table's keys are exactly the targets among the trimmed
\* headers of the sheet read, in target order; each value list is strictly
\* ascending (sorted, no duplicates), has no empty string, and holds exactly
\* the trimmed non-null cells of its column.
C8_ChoiceTable ==
    (phase = "done" /\ ~result.raised) =>
        LET cols == ReadSheet(input)
            ch == result.choices
            Headed(c) == {i \in 1..Len(cols) : Strip(cols[i].header) = c}
        IN  /\ \A i \in 1..Len(ch) : ch[i][1] \in SeqToSet(TargetColumns)
            /\ \A i, j \in 1..Len(ch) : i # j => ch[i][1] # ch[j][1]
            /\ \A t \in SeqToSet(TargetColumns) : Has(ch, t) <=> Headed(t) # {}
            /\ \A i \in 1..Len(ch) :
                  LET vals == ch[i][2]
                      cells == cols[CHOOSE h \in Headed(ch[i][1]) : TRUE].cells
                  IN  /\ \A a \in 1..(Len(vals) - 1) : StrLess(vals[a], vals[a + 1])
                      /\ \A a, b \in 1..Len(vals) : a # b => vals[a] # vals[b]
                      /\ <<>> \notin SeqToSet(vals)
                      /\ SeqToSet(vals)
                            = {Strip(cells[n].v) :
                                 n \in {m \in 1..Len(cells) : cells[m] \notin {NaN, None}}}
                              \ {<<>>}

\* a padded header, cells that need trimming and sorting: "é" and U+3000 "A"
\* give "A", "é"
C8_Witness ==
    /\ phase = "done"
    /\ ~result.raised
    /\ Len(input.sheets) = 1
    /\ input.sheets[1].cols[1].header = <<32>> \o SoilType \o <<32>>
    /\ input.sheets[1].cols[1].cells = <<Str(<<233>>), Str(<<12288, 65>>)>>
    /\ Get(result.choices, SoilType) = <<<<65>>, <<233>>>>

\* C9: schema introspection, the widgets and every predict / predict_proba
\* call happen only in a run whose artifact was deserialized; a run with no
\* upload or a failed load shows its message and halts with no inference.
C9_ArtifactGate ==
    /\ pc \in {"excel", "inputs", "button"} =>
          /\ pipeline.loaded
          /\ <<num_cols, cat_cols>> = get_expected_input_columns(pipeline)
    /\ (sent # <<>> \/ hres.ran \/ row_base # <<>> \/ aircraft_selected # <<>>
          \/ num_cols # <<>> \/ cat_cols # <<>> \/ choices # <<>>) => pipeline.loaded
    /\ (Shown(ui, "info") \/ Count(ui, Msg("error", "Failed to load model")) > 0) =>
          /\ pc = "idle"
          /\ Len(ui) = 1
          /\ ~pipeline.loaded
          /\ sent = <<>>
          /\ ~hres.ran

\* a session that failed a submission, then a run whose load failed
C9_Witness ==
    /\ pc = "idle"
    /\ failedBefore
    /\ ui = <<Msg("error", "Failed to load model")>>
    /\ ~pipeline.loaded

\* the first call a flow made
FirstCall(h) == h.sent[1]

\* C10 as stated: with at most one identifier the single-row flow has the
\* batch flow's outcome: the same table sent to inference, the same rendered
\* labels, the same rejection with no inference call.
C10_SingleIsSubset ==
    phase = "done" =>
        LET cc == get_expected_input_columns(input.art)[2]
            b == result.batch
            s == result.single
        IN  IF AircraftName \in SeqToSet(cc) /\ input.w.aircraft = <<>>
            THEN /\ CallsOf(b.sent, "predict") = 0
                 /\ CallsOf(s.sent, "predict") = 0
                 /\ s.stopped = b.stopped
            ELSE /\ FirstCall(s) = FirstCall(b)
                 /\ ~input.po.raises => s.labels = <<BatchLabel(input.po.labels[1])>>

\* C10 amended: with a non-empty identifier, or a schema without "Aircraft
\* Name", both flows call predict first, once, on the same reconciled table;
\* with "Aircraft Name" in the schema and an empty identifier the batch flow
\* rejects without inference while the single-row flow calls predict on a
\* row whose identifier is the empty string; the single-row flow renders
\* label 1 as "Overload" where the batch mapping is "Overloaded".
C10_SameTableOnly ==
    phase = "done" =>
        LET cc == get_expected_input_columns(input.art)[2]
            b == result.batch
            s == result.single
        IN  /\ CallsOf(s.sent, "predict") = 1
            /\ FirstCall(s).fn = "predict"
            /\ FirstCall(s).X = s.X
            /\ s.X.columns = SchemaCols(input.art)
            /\ IF AircraftName \in SeqToSet(cc) /\ input.w.aircraft = <<>>
               THEN /\ b.stopped
                    /\ b.sent = <<>>
                    /\ ~s.stopped
                    /\ CellOf(s.X, AircraftName) = Str(<<>>)
               ELSE /\ ~b.stopped
                    /\ CallsOf(b.sent, "predict") = 1
                    /\ FirstCall(b) = FirstCall(s)
                    /\ b.X = s.X
            /\ ~input.po.raises =>
                  /\ s.labels = <<IF input.po.labels[1] = 1 THEN "Overload" ELSE "Safe">>
                  /\ BatchLabel(1) = "Overloaded"

\* one identifier, label 1: the same table in both flows, "Overload" rendered
C10_Witness ==
    /\ phase = "done"
    /\ input.art = ArtFull
    /\ input.w.aircraft = <<65>>
    /\ input.po.labels = <<1>>
    /\ result.single.labels = <<"Overload">>
    /\ result.batch.X = result.single.X
    /\ CellOf(result.batch.X, AircraftName) = Str(<<65>>)

====
